---- MODULE Spec2Model ----
(***************************************************************************)
(* Bearer-token verification of app/services/clerk_auth.py                 *)
(* (ClerkAuthService): the JWKS cache, the materialized-key cache, the     *)
(* conversion of a JWK to a public key, verify_token and                   *)
(* get_user_from_token, run as coroutines of one asyncio event loop.       *)
(***************************************************************************)
EXTENDS Integers, Sequences, FiniteSets, TLC

(***************************************************************************)
(* Bounds                                                                  *)
(***************************************************************************)
NumTasks == 2
MaxCalls == 2
MaxNow == 1
MaxExp == 1
MaxPieces == 4
MaxBytes == 3
MaxTokens == 2
MaxClock == 61

Tasks == 1..NumTasks

(***************************************************************************)
(* Python values.  None is the empty tuple and a present optional value v  *)
(* is <<v>>, so that values of different types are never compared.         *)
(***************************************************************************)
None == <<>>
Some(v) == <<v>>

\* dict.get(k, d)
Get(d, k, default) == IF k \in DOMAIN d THEN d[k] ELSE default

\* dict.get(k): None when the key is absent
GetOpt(d, k) == IF k \in DOMAIN d THEN Some(d[k]) ELSE None

Return(v) == [kind |-> "return", value |-> v]
Raise(exc, st, det) == [kind |-> "raise", exc |-> exc, status |-> st, detail |-> det]
Raised(r) == r.kind = "raise"

HTTP_401_UNAUTHORIZED == 401
HTTP_500_INTERNAL_SERVER_ERROR == 500
HTTP_503_SERVICE_UNAVAILABLE == 503

CLERK_JWT_VERIFY_ISSUER == "https://evident-termite-94.clerk.accounts.dev"

(***************************************************************************)
(* _base64url_decode and base64.b64decode                                  *)
(***************************************************************************)
B64Alphabet ==
  << "A","B","C","D","E","F","G","H","I","J","K","L","M","N","O","P",
     "Q","R","S","T","U","V","W","X","Y","Z","a","b","c","d","e","f",
     "g","h","i","j","k","l","m","n","o","p","q","r","s","t","u","v",
     "w","x","y","z","0","1","2","3","4","5","6","7","8","9","+","/" >>

IsB64Char(c) == \E i \in 1..64 : B64Alphabet[i] = c

B64Index(c) == (CHOOSE i \in 1..64 : B64Alphabet[i] = c) - 1

RECURSIVE Repeat(_, _)
Repeat(c, k) == IF k <= 0 THEN <<>> ELSE <<c>> \o Repeat(c, k - 1)

\* str.replace of one character by another
ReplaceChar(s, a, b) == [i \in 1..Len(s) |-> IF s[i] = a THEN b ELSE s[i]]

\* the bytes of the complete and the trailing partial groups of sextets
RECURSIVE SextetsToBytes(_)
SextetsToBytes(q) ==
  IF Len(q) >= 4
  THEN LET v == ((q[1] * 64 + q[2]) * 64 + q[3]) * 64 + q[4]
       IN  << v \div 65536, (v \div 256) % 256, v % 256 >>
             \o SextetsToBytes(SubSeq(q, 5, Len(q)))
  ELSE IF Len(q) = 3
  THEN LET v == (q[1] * 64 + q[2]) * 64 + q[3]
       IN  << v \div 1024, (v \div 4) % 256 >>
  ELSE IF Len(q) = 2
  THEN << (q[1] * 64 + q[2]) \div 16 >>
  ELSE <<>>

\* a2b_base64 on the data characters of the input and its count of '=':
\* a trailing partial group needs its padding
DecodeSextets(chars, pads) ==
  IF \/ Len(chars) % 4 = 1
     \/ Len(chars) % 4 = 2 /\ pads < 2
     \/ Len(chars) % 4 = 3 /\ pads < 1
  THEN [ok |-> FALSE, bytes |-> <<>>]
  ELSE [ok |-> TRUE,
        bytes |-> SextetsToBytes([i \in 1..Len(chars) |-> B64Index(chars[i])])]

IsPad(c) == c = "="

\* base64.b64decode(data) with validate=False: characters outside the
\* alphabet are skipped
b64decode(data) ==
  DecodeSextets(SelectSeq(data, IsB64Char), Len(SelectSeq(data, IsPad)))

\* as it would be without the padding step
AddPaddingNever(data, missing_padding) == data

\* the padding step of _base64url_decode
AddPadding(data, missing_padding) ==
  IF missing_padding # 0
  THEN data \o Repeat("=", 4 - missing_padding)
  ELSE data

\* as it would be without the translation of '-' and '_'
Base64DecodePaddedOnly(data) ==
  b64decode(AddPadding(data, Len(data) % 4))

_base64url_decode(data) ==
  b64decode(ReplaceChar(ReplaceChar(AddPadding(data, Len(data) % 4),
                                    "-", "+"), "_", "/"))

\* int.from_bytes(b, byteorder="little")
RECURSIVE IntFromBytesLittleEndian(_)
IntFromBytesLittleEndian(b) ==
  IF Len(b) = 0 THEN 0
  ELSE IntFromBytesLittleEndian(SubSeq(b, 2, Len(b))) * 256 + b[1]

\* int.from_bytes(b, byteorder="big")
RECURSIVE IntFromBytes(_)
IntFromBytes(b) ==
  IF Len(b) = 0 THEN 0
  ELSE IntFromBytes(SubSeq(b, 1, Len(b) - 1)) * 256 + b[Len(b)]

(***************************************************************************)
(* The identity provider: its signing keys and the key set it publishes    *)
(***************************************************************************)
\* RSA public numbers of the key pairs, by the name of the private half
KeyPairs ==
  [ KP1 |-> [n |-> 3233, e |-> 17],
    KP2 |-> [n |-> 3127, e |-> 3],
    KP3 |-> [n |-> 16510911, e |-> 65537] ]

KeyPairNames == {"KP1", "KP2"}

\* the private keys the identity provider signs with, by kid
SigningKeys == [k1 |-> "KP1", k2 |-> "KP2", k3 |-> "KP2"]

EmptyDict == <<>>

\* a modulus field that is not base64 text: five data characters
CorruptModulus == <<"D","K","E","A","A">>

\* the JSON body of CLERK_JWKS_URL: k1 is the public half of KP1
\* (n = "DKE", e = "EQ"), k2 is a descriptor that lacks its modulus, k3 a
\* descriptor whose modulus is corrupt
PublishedJwks ==
  [ keys |-> << [kid |-> "k1", kty |-> "RSA", alg |-> "RS256",
                 n |-> <<"D","K","E">>, e |-> <<"E","Q">>],
                [kid |-> "k2", kty |-> "RSA", alg |-> "RS256",
                 e |-> <<"E","Q">>],
                [kid |-> "k3", kty |-> "RSA", alg |-> "RS256",
                 n |-> CorruptModulus, e |-> <<"E","Q">>] >> ]

\* as it would be if requests.get had no timeout and the server never
\* answered
NoResponse == {}

\* what requests.get, raise_for_status and response.json() can produce:
\* an exception, or the JSON object of a 2xx answer
FetchFailures == {"transport", "timeout", "http_500", "bad_json"}
FetchBodies == {PublishedJwks, EmptyDict}
Responses ==
  {[ok |-> FALSE, why |-> w, body |-> EmptyDict] : w \in FetchFailures}
    \cup {[ok |-> TRUE, why |-> "2xx", body |-> b] : b \in FetchBodies}

\* bool(d) of a dict
DictTruthy(d) == DOMAIN d # {}

\* as it would be if get_jwks asked the identity provider every time
CacheNeverTruthy(c) == FALSE

\* `if self._jwks_cache:` on an Optional[Dict]
CacheTruthy(c) == c # None /\ DictTruthy(c[1])

\* jwks.get("keys", [])
JwksKeys(jwks) == Get(jwks, "keys", <<>>)

(***************************************************************************)
(* Tokens                                                                  *)
(***************************************************************************)
Kids == {"k1", "k2", "k3", "k9"}
Algs == {"RS256", "HS256", "none"}
Issuers == {CLERK_JWT_VERIFY_ISSUER, "https://idp.example"}

MkHeader(kid, alg) ==
  [k \in {"alg"} \cup (IF kid = None THEN {} ELSE {"kid"}) |->
     IF k = "alg" THEN alg ELSE kid[1]]

\* the claims about the user and the session that a token may carry
Profiles ==
  { EmptyDict,
    [email |-> "u@example.com", name |-> "U Ser", sid |-> "sess-1", iat |-> 0,
     aud |-> "other-app"] }

MkPayload(iss, exp, profile) ==
  [k \in {"sub"} \cup (IF iss = None THEN {} ELSE {"iss"})
                 \cup (IF exp = None THEN {} ELSE {"exp"})
                 \cup DOMAIN profile |->
     IF k = "sub" THEN "user-42"
     ELSE IF k = "iss" THEN iss[1]
     ELSE IF k = "exp" THEN exp[1]
     ELSE profile[k]]

\* a compact string that does not split into three decodable segments
MalformedToken ==
  [wf |-> FALSE, header |-> EmptyDict, payload |-> EmptyDict, sig |-> "KP2"]

\* a three-segment token: header, payload, and the private key that made
\* the signature segment over header and payload
WellFormedTokens ==
  { [wf |-> TRUE, header |-> MkHeader(kid, alg),
     payload |-> MkPayload(iss, exp, profile), sig |-> s] :
      kid \in {None} \cup {Some(k) : k \in Kids},
      alg \in Algs,
      iss \in {None} \cup {Some(i) : i \in Issuers},
      exp \in {None} \cup {Some(x) : x \in 1..MaxExp},
      profile \in Profiles,
      s \in KeyPairNames }

Tokens == WellFormedTokens \cup {MalformedToken}

(***************************************************************************)
(* get_public_key: search of the key set and conversion of a JWK           *)
(***************************************************************************)
\* the PEM SubjectPublicKeyInfo of RSAPublicNumbers(e, n)
Pem(e, n) == [fmt |-> "PEM", e |-> e, n |-> n]

\* RSAPublicNumbers(e, n).public_key() rejects these numbers
BadPublicNumbers(e, n) == n < 3 \/ e < 3 \/ e >= n \/ e % 2 = 0

KeyConversionFailed ==
  Raise("HTTPException", HTTP_500_INTERNAL_SERVER_ERROR,
        "Failed to process authentication key")

KeyNotFound ==
  Raise("HTTPException", HTTP_401_UNAUTHORIZED, "Invalid token: key not found")

\* rsa.RSAPublicNumbers(e, n).public_key().public_bytes(PEM, SPKI)
PublicKeyPem(e, n) ==
  IF BadPublicNumbers(e, n) THEN KeyConversionFailed ELSE Return(Pem(e, n))

\* the numbers of the decoded modulus and exponent
ConvertDecoded(nb, eb) ==
  IF ~ nb.ok \/ ~ eb.ok THEN KeyConversionFailed
  ELSE PublicKeyPem(IntFromBytes(eb.bytes), IntFromBytes(nb.bytes))

\* the try block of get_public_key for the descriptor that matched
ConvertJwk(key) ==
  IF ~ ({"n", "e"} \subseteq DOMAIN key) THEN KeyConversionFailed
  ELSE ConvertDecoded(_base64url_decode(key.n), _base64url_decode(key.e))

\* the index of the first descriptor of the list whose kid matches, or 0
FirstMatch(keys, kid) ==
  IF \E i \in 1..Len(keys) : GetOpt(keys[i], "kid") = Some(kid)
  THEN CHOOSE i \in 1..Len(keys) :
         /\ GetOpt(keys[i], "kid") = Some(kid)
         /\ \A j \in 1..(i - 1) : GetOpt(keys[j], "kid") # Some(kid)
  ELSE 0

\* as it would be if the cache entry were made before the conversion
StoreKeyBeforeConversion(conv, kid, pk) ==
  [res |-> conv,
   pk |-> [k \in DOMAIN pk \cup {kid} |->
             IF k # kid THEN pk[k]
             ELSE IF Raised(conv) THEN Pem(0, 0) ELSE conv.value]]

\* self._public_keys_cache[kid] = pem; return pem
StoreKey(conv, kid, pk) ==
  IF Raised(conv) THEN [res |-> conv, pk |-> pk]
  ELSE [res |-> conv,
        pk |-> [k \in DOMAIN pk \cup {kid} |->
                  IF k = kid THEN conv.value ELSE pk[k]]]

\* the body of the loop for the descriptor at index i (0: the loop ends)
MatchedKey(keys, i, kid, pk) ==
  IF i = 0 THEN [res |-> KeyNotFound, pk |-> pk]
  ELSE StoreKey(ConvertJwk(keys[i]), kid, pk)

\* the loop of get_public_key over jwks.get("keys", []): the result and
\* the materialized-key cache it leaves
SearchJwks(jwks, kid, pk) ==
  MatchedKey(JwksKeys(jwks), FirstMatch(JwksKeys(jwks), kid), kid, pk)

(***************************************************************************)
(* jwt.get_unverified_header and jwt.decode                                *)
(***************************************************************************)
JwtError(exc) == Raise(exc, 0, "")

\* the subclasses of jwt.InvalidTokenError that the calls can raise
InvalidTokenErrors ==
  { "jwt.DecodeError", "jwt.InvalidAlgorithmError", "jwt.InvalidSignatureError",
    "jwt.ExpiredSignatureError", "jwt.MissingRequiredClaimError",
    "jwt.InvalidIssuerError" }

\* `not kid` for kid = unverified_header.get("kid")
NoKid(header) == GetOpt(header, "kid") \in {None, Some("")}

get_unverified_header(token) ==
  IF ~ token.wf THEN JwtError("jwt.DecodeError") ELSE Return(token.header)

\* RS256 verification of the signature segment under the PEM key
SignatureVerifies(token, pem) ==
  pem = Pem(KeyPairs[token.sig].e, KeyPairs[token.sig].n)

\* jwt.decode as it would be with options={"verify_exp": False}
JwtDecodeNoExpiry(token, pem, issuer, t) ==
  IF ~ token.wf THEN JwtError("jwt.DecodeError")
  ELSE IF Get(token.header, "alg", "") # "RS256"
    THEN JwtError("jwt.InvalidAlgorithmError")
  ELSE IF ~ SignatureVerifies(token, pem)
    THEN JwtError("jwt.InvalidSignatureError")
  ELSE IF "iss" \notin DOMAIN token.payload
    THEN JwtError("jwt.MissingRequiredClaimError")
  ELSE IF token.payload["iss"] # issuer
    THEN JwtError("jwt.InvalidIssuerError")
  ELSE Return(token.payload)

\* jwt.decode as it would be without its issuer argument
JwtDecodeNoIssuer(token, pem, issuer, t) ==
  IF ~ token.wf THEN JwtError("jwt.DecodeError")
  ELSE IF Get(token.header, "alg", "") # "RS256"
    THEN JwtError("jwt.InvalidAlgorithmError")
  ELSE IF ~ SignatureVerifies(token, pem)
    THEN JwtError("jwt.InvalidSignatureError")
  ELSE IF "exp" \in DOMAIN token.payload /\ token.payload["exp"] <= t
    THEN JwtError("jwt.ExpiredSignatureError")
  ELSE Return(token.payload)

\* jwt.decode as it would be with algorithms=None: the header's alg is
\* taken as it comes
JwtDecodeAnyAlgorithm(token, pem, issuer, t) ==
  IF ~ token.wf THEN JwtError("jwt.DecodeError")
  ELSE IF ~ SignatureVerifies(token, pem)
    THEN JwtError("jwt.InvalidSignatureError")
  ELSE IF "exp" \in DOMAIN token.payload /\ token.payload["exp"] <= t
    THEN JwtError("jwt.ExpiredSignatureError")
  ELSE IF "iss" \notin DOMAIN token.payload
    THEN JwtError("jwt.MissingRequiredClaimError")
  ELSE IF token.payload["iss"] # issuer
    THEN JwtError("jwt.InvalidIssuerError")
  ELSE Return(token.payload)

\* jwt.decode as it would be without options={"verify_aud": False}: no
\* audience is given, so a token that carries aud is refused
JwtDecodeVerifyAud(token, pem, issuer, t) ==
  IF ~ token.wf THEN JwtError("jwt.DecodeError")
  ELSE IF Get(token.header, "alg", "") # "RS256"
    THEN JwtError("jwt.InvalidAlgorithmError")
  ELSE IF ~ SignatureVerifies(token, pem)
    THEN JwtError("jwt.InvalidSignatureError")
  ELSE IF "exp" \in DOMAIN token.payload /\ token.payload["exp"] <= t
    THEN JwtError("jwt.ExpiredSignatureError")
  ELSE IF "iss" \notin DOMAIN token.payload
    THEN JwtError("jwt.MissingRequiredClaimError")
  ELSE IF token.payload["iss"] # issuer
    THEN JwtError("jwt.InvalidIssuerError")
  ELSE IF "aud" \in DOMAIN token.payload
    THEN JwtError("jwt.InvalidAudienceError")
  ELSE Return(token.payload)

\* jwt.decode(token, public_key, algorithms=["RS256"], issuer=...,
\*            options={"verify_aud": False}) at time t
JwtDecode(token, pem, issuer, t) ==
  IF ~ token.wf THEN JwtError("jwt.DecodeError")
  ELSE IF Get(token.header, "alg", "") # "RS256"
    THEN JwtError("jwt.InvalidAlgorithmError")
  ELSE IF ~ SignatureVerifies(token, pem)
    THEN JwtError("jwt.InvalidSignatureError")
  ELSE IF "exp" \in DOMAIN token.payload /\ token.payload["exp"] <= t
    THEN JwtError("jwt.ExpiredSignatureError")
  ELSE IF "iss" \notin DOMAIN token.payload
    THEN JwtError("jwt.MissingRequiredClaimError")
  ELSE IF token.payload["iss"] # issuer
    THEN JwtError("jwt.InvalidIssuerError")
  ELSE Return(token.payload)

(***************************************************************************)
(* get_jwks, get_public_key, verify_token, get_user_from_token             *)
(***************************************************************************)
NotCalled == [kind |-> "not_called"]

ServiceUnavailable ==
  Raise("HTTPException", HTTP_503_SERVICE_UNAVAILABLE,
        "Authentication service unavailable")

NoKeyId ==
  Raise("HTTPException", HTTP_401_UNAUTHORIZED, "Invalid token: no key ID")

\* get_jwks as it would be if it stored the body before raise_for_status
FetchJwksStoresFailure(resp, cache) ==
  IF resp.ok
  THEN [res |-> Return(resp.body), cache |-> Some(resp.body)]
  ELSE [res |-> ServiceUnavailable, cache |-> Some(resp.body)]

\* get_jwks as it would be with negative caching: a failure is remembered
\* as a key set without keys
FetchJwksRemembersFailure(resp, cache) ==
  IF resp.ok
  THEN [res |-> Return(resp.body), cache |-> Some(resp.body)]
  ELSE [res |-> ServiceUnavailable, cache |-> Some([keys |-> <<>>])]

\* the try block of get_jwks once requests.get has answered: the result
\* and the value of _jwks_cache
FetchJwks(resp, cache) ==
  IF resp.ok
  THEN [res |-> Return(resp.body), cache |-> Some(resp.body)]
  ELSE [res |-> ServiceUnavailable, cache |-> cache]

\* as it would be if the cache held one key, whatever the kid
GetPublicKeyAnyCached(kid, jr, pk) ==
  IF DOMAIN pk # {}
  THEN [res |-> Return(pk[CHOOSE k \in DOMAIN pk : TRUE]), pk |-> pk]
  ELSE IF Raised(jr) THEN [res |-> jr, pk |-> pk]
  ELSE SearchJwks(jr.value, kid, pk)

\* get_public_key(kid), given the result jr of its get_jwks call (which
\* it makes only when kid is not in the materialized-key cache)
GetPublicKey(kid, jr, pk) ==
  IF kid \in DOMAIN pk THEN [res |-> Return(pk[kid]), pk |-> pk]
  ELSE IF Raised(jr) THEN [res |-> jr, pk |-> pk]
  ELSE SearchJwks(jr.value, kid, pk)

\* the except clauses of verify_token: jwt.InvalidTokenError first, then
\* Exception, of which fastapi.HTTPException is a subclass
VerifyCatch(r) ==
  IF ~ Raised(r) THEN r
  ELSE IF r.exc \in InvalidTokenErrors
    THEN Raise("HTTPException", HTTP_401_UNAUTHORIZED,
               "Invalid authentication token")
  ELSE Raise("HTTPException", HTTP_500_INTERNAL_SERVER_ERROR,
             "Authentication verification failed")

\* jwt.decode with the key that get_public_key returned, or its exception
DecodeWithKey(token, g, t) ==
  [res |-> VerifyCatch(IF Raised(g.res) THEN g.res
                       ELSE JwtDecode(token, g.res.value,
                                      CLERK_JWT_VERIFY_ISSUER, t)),
   key |-> g.res, pk |-> g.pk]

\* the try block of verify_token after jwt.get_unverified_header
VerifyHeader(token, hdr, jr, pk, t) ==
  IF Raised(hdr)
  THEN [res |-> VerifyCatch(hdr), key |-> NotCalled, pk |-> pk]
  ELSE IF NoKid(hdr.value)
  THEN [res |-> VerifyCatch(NoKeyId), key |-> NotCalled, pk |-> pk]
  ELSE DecodeWithKey(token, GetPublicKey(hdr.value["kid"], jr, pk), t)

\* verify_token(token) at time t
VerifyToken(token, jr, pk, t) ==
  VerifyHeader(token, get_unverified_header(token), jr, pk, t)

\* user_info as it would be with iat and exp taken for each other
UserInfoSwappedTimes(payload) ==
  [ id |-> GetOpt(payload, "sub"),
    email |-> GetOpt(payload, "email"),
    full_name |-> Get(payload, "name", ""),
    first_name |-> Get(payload, "given_name", ""),
    last_name |-> Get(payload, "family_name", ""),
    is_active |-> TRUE,
    clerk_user_id |-> GetOpt(payload, "sub"),
    session_id |-> GetOpt(payload, "sid"),
    issued_at |-> GetOpt(payload, "exp"),
    expires_at |-> GetOpt(payload, "iat") ]

\* the user_info dict of get_user_from_token
UserInfo(payload) ==
  [ id |-> GetOpt(payload, "sub"),
    email |-> GetOpt(payload, "email"),
    full_name |-> Get(payload, "name", ""),
    first_name |-> Get(payload, "given_name", ""),
    last_name |-> Get(payload, "family_name", ""),
    is_active |-> TRUE,
    clerk_user_id |-> GetOpt(payload, "sub"),
    session_id |-> GetOpt(payload, "sid"),
    issued_at |-> GetOpt(payload, "iat"),
    expires_at |-> GetOpt(payload, "exp") ]

GetUserFromToken(vres) ==
  IF Raised(vres) THEN vres ELSE Return(UserInfo(vres.value))

(***************************************************************************)
(* extract_token_from_header                                               *)
(***************************************************************************)
\* the characters str.split() takes as separators, of those in use
Whitespace == {" ", "\t"}

\* str.lower() on the letters in use
LowerCase == [B |-> "b", E |-> "e", A |-> "a", R |-> "r"]

lower(str) ==
  [i \in 1..Len(str) |->
     IF str[i] \in DOMAIN LowerCase THEN LowerCase[str[i]] ELSE str[i]]

\* str.split() reading str from left to right: cur is the part being
\* read, parts the parts already closed
RECURSIVE SplitFrom(_, _, _)
SplitFrom(str, cur, parts) ==
  IF str = <<>>
  THEN IF cur = <<>> THEN parts ELSE Append(parts, cur)
  ELSE IF Head(str) \in Whitespace
  THEN SplitFrom(Tail(str), <<>>,
                 IF cur = <<>> THEN parts ELSE Append(parts, cur))
  ELSE SplitFrom(Tail(str), Append(cur, Head(str)), parts)

\* str.split(): the maximal runs of characters that are not whitespace
split(str) == SplitFrom(str, <<>>, <<>>)

HeaderMissing ==
  Raise("HTTPException", HTTP_401_UNAUTHORIZED, "Authorization header missing")

InvalidHeaderFormat ==
  Raise("HTTPException", HTTP_401_UNAUTHORIZED,
        "Invalid authorization header format")

\* as it would be without .lower()
TokenOfPartsCaseSensitive(parts) ==
  IF Len(parts) # 2 \/ parts[1] # <<"B","e","a","r","e","r">>
  THEN InvalidHeaderFormat
  ELSE Return(parts[2])

\* as it would be with `len(parts) < 2`: parts after the second ignored
TokenOfPartsAtLeastTwo(parts) ==
  IF Len(parts) < 2 \/ lower(parts[1]) # <<"b","e","a","r","e","r">>
  THEN InvalidHeaderFormat
  ELSE Return(parts[2])

\* the test on parts and the return of extract_token_from_header
TokenOfParts(parts) ==
  IF Len(parts) # 2 \/ lower(parts[1]) # <<"b","e","a","r","e","r">>
  THEN InvalidHeaderFormat
  ELSE Return(parts[2])

\* extract_token_from_header(authorization_header); the empty sequence
\* stands for the empty string and for None, which `not` treats alike
extract_token_from_header(authorization_header) ==
  IF authorization_header = <<>> THEN HeaderMissing
  ELSE TokenOfParts(split(authorization_header))

\* the pieces the header values are made of
HeaderPieces ==
  { <<" ">>, <<"\t">>,
    <<"B","e","a","r","e","r">>, <<"b","e","a","r","e","r">>,
    <<"B","E","A","R","E","R">>, <<"B","a","s","i","c">>,
    <<"t","o","k">> }

\* the concatenations of at most k pieces
RECURSIVE Concatenations(_)
Concatenations(k) ==
  IF k = 0 THEN {<<>>}
  ELSE Concatenations(k - 1)
         \cup {p \o h : p \in HeaderPieces, h \in Concatenations(k - 1)}

\* the pieces that are not whitespace
HeaderWords == {p \in HeaderPieces : p[1] \notin Whitespace}

\* the header values of three parts, a space between them
ThreePartHeaders ==
  {a \o <<" ">> \o b \o <<" ">> \o c : a, b, c \in HeaderWords}

HeaderValues == Concatenations(MaxPieces) \cup ThreePartHeaders

(***************************************************************************)
(* Key descriptors an identity provider can publish                        *)
(***************************************************************************)
\* descriptors of the public halves of the key pairs: the unpadded
\* base64url text of the big-endian bytes of n and e
ValidDescriptors ==
  { [pair |-> "KP1",
     jwk |-> [kid |-> "k1", kty |-> "RSA", alg |-> "RS256",
              n |-> <<"D","K","E">>, e |-> <<"E","Q">>]],
    [pair |-> "KP2",
     jwk |-> [kid |-> "k2", kty |-> "RSA", alg |-> "RS256",
              n |-> <<"D","D","c">>, e |-> <<"A","w">>]],
    [pair |-> "KP3",
     jwk |-> [kid |-> "k3", kty |-> "RSA", alg |-> "RS256",
              n |-> <<"-","-","-","_">>, e |-> <<"A","Q","A","B">>]] }

\* the descriptors of the published key set, with the key pair they are
\* meant for
PublishedDescriptors ==
  { [pair |-> SigningKeys[PublishedJwks.keys[i].kid],
     jwk |-> PublishedJwks.keys[i]] : i \in 1..Len(PublishedJwks.keys) }

\* descriptors that declare another algorithm or another key type than
\* the supported RS256 / RSA, and carry decodable n and e fields
UnsupportedDescriptors ==
  { [pair |-> "KP1",
     jwk |-> [kid |-> "k4", kty |-> "RSA", alg |-> "RS512",
              n |-> <<"D","K","E">>, e |-> <<"E","Q">>]],
    [pair |-> "KP1",
     jwk |-> [kid |-> "k5", kty |-> "EC", alg |-> "ES256",
              n |-> <<"D","K","E">>, e |-> <<"E","Q">>]],
    [pair |-> "KP2",
     jwk |-> [kid |-> "k6", kty |-> "oct", alg |-> "HS256",
              n |-> <<"D","D","c">>, e |-> <<"A","w">>]] }

Descriptors ==
  ValidDescriptors \cup PublishedDescriptors \cup UnsupportedDescriptors

(***************************************************************************)
(* Inputs of _base64url_decode                                             *)
(***************************************************************************)
ByteValues == {0, 17, 251, 255}

\* the byte strings of up to MaxBytes bytes
ByteStrings == UNION {[1..n -> ByteValues] : n \in 0..MaxBytes}

\* the character of a sextet in the URL-safe alphabet
B64UrlChar(i) ==
  IF i = 62 THEN "-" ELSE IF i = 63 THEN "_" ELSE B64Alphabet[i + 1]

\* the unpadded base64url text of a byte string: three bytes give four
\* characters, two trailing bytes three, one trailing byte two
RECURSIVE Base64UrlEncode(_)
Base64UrlEncode(b) ==
  IF Len(b) >= 3
  THEN << B64UrlChar(b[1] \div 4),
          B64UrlChar(((b[1] % 4) * 16) + (b[2] \div 16)),
          B64UrlChar(((b[2] % 16) * 4) + (b[3] \div 64)),
          B64UrlChar(b[3] % 64) >>
         \o Base64UrlEncode(SubSeq(b, 4, Len(b)))
  ELSE IF Len(b) = 2
  THEN << B64UrlChar(b[1] \div 4),
          B64UrlChar(((b[1] % 4) * 16) + (b[2] \div 16)),
          B64UrlChar((b[2] % 16) * 4) >>
  ELSE IF Len(b) = 1
  THEN << B64UrlChar(b[1] \div 4), B64UrlChar((b[1] % 4) * 16) >>
  ELSE <<>>

\* texts that are not the unpadded encoding of a byte string: one data
\* character, five data characters, a text that carries its padding
OtherTexts == { <<"A">>, CorruptModulus, <<"_","w","=","=">> }

Base64Inputs == {Base64UrlEncode(b) : b \in ByteStrings} \cup OtherTexts

(***************************************************************************)
(* Calls of the service                                                    *)
(***************************************************************************)
Calls ==
  {[op |-> "get_jwks", kid |-> "k1", token |-> MalformedToken]}
    \cup {[op |-> "get_public_key", kid |-> k, token |-> MalformedToken] : k \in Kids}
    \cup {[op |-> "get_user_from_token", kid |-> "k1", token |-> tok] : tok \in Tokens}

NoCall == [op |-> "none", kid |-> "k1", token |-> MalformedToken]

\* the call gets as far as get_public_key
ReachesKeyLookup(call) ==
  \/ call.op = "get_public_key"
  \/ call.op = "get_user_from_token" /\ call.token.wf
       /\ ~ NoKid(call.token.header)

CallKid(call) ==
  IF call.op = "get_public_key" THEN call.kid ELSE call.token.header["kid"]

\* as it would be if verify_token resolved the key set before its kid check
CallsGetJwksBeforeKidCheck(call, pk) ==
  \/ call.op = "get_jwks"
  \/ call.op = "get_user_from_token" /\ call.token.wf
  \/ ReachesKeyLookup(call) /\ CallKid(call) \notin DOMAIN pk

\* as it would be if get_public_key asked for the key set before it
\* looked into its own cache
CallsGetJwksBeforeCacheCheck(call, pk) ==
  \/ call.op = "get_jwks"
  \/ ReachesKeyLookup(call)

\* the call gets as far as get_jwks
CallsGetJwks(call, pk) ==
  \/ call.op = "get_jwks"
  \/ ReachesKeyLookup(call) /\ CallKid(call) \notin DOMAIN pk

\* the call gets as far as requests.get
ReachesFetch(call, cache, pk) == CallsGetJwks(call, pk) /\ ~ CacheTruthy(cache)

OfGetJwks(jr, pk) ==
  [jwks |-> jr, key |-> NotCalled, verify |-> NotCalled, result |-> jr, pk |-> pk]

OfGetPublicKey(jr, g) ==
  [jwks |-> jr, key |-> g.res, verify |-> NotCalled, result |-> g.res, pk |-> g.pk]

OfGetUserFromToken(jr, v) ==
  [jwks |-> jr, key |-> v.key, verify |-> v.res,
   result |-> GetUserFromToken(v.res), pk |-> v.pk]

\* everything a call computes, given the result jr of its get_jwks call
Outcome(call, jr, pk, t) ==
  IF call.op = "get_jwks" THEN OfGetJwks(jr, pk)
  ELSE IF call.op = "get_public_key"
  THEN OfGetPublicKey(jr, GetPublicKey(call.kid, jr, pk))
  ELSE OfGetUserFromToken(jr, VerifyToken(call.token, jr, pk, t))

(***************************************************************************)
(* State                                                                   *)
(***************************************************************************)
VARIABLES
  _jwks_cache,         \* Optional[Dict]
  _public_keys_cache,  \* kid -> PEM
  pc,                  \* per task: "idle", "ready", "fetching", "returned"
  args,                \* per task: the call it is running
  now,                 \* the clock
  calls,               \* calls made so far
  fetches,             \* HTTP GETs issued so far
  unproductive,        \* GETs that left no truthy _jwks_cache behind
  populated,           \* some get_jwks call got a 2xx answer with a JSON body
  scenario,            \* "fresh"; a kid, while every call so far is one of a
                       \* batch of concurrent lookups of that kid; or "other"
  last,                \* the call that has just returned, and what each of
                       \* its layers returned
  fcall,               \* a call of a function of the service on its own
  fret,                \* what that call returned
  tokens_storage,      \* auth.py: token -> {user_id, created_at, expires_at}
  clock,               \* auth.py: datetime.now(), in minutes
  minted,              \* auth.py: uuid4 values drawn so far
  req,                 \* auth.py: per worker, the request it is serving
  revoked              \* auth.py: tokens deleted by logout or on expiry

serviceVars == << _jwks_cache, _public_keys_cache, pc, args, now, calls,
                  fetches, unproductive, populated, scenario, last, fcall,
                  fret >>

sessionVars == << tokens_storage, clock, minted, req, revoked >>

vars == << serviceVars, sessionVars >>

\* the calls of the functions that read no state of the service; a
\* descriptor is converted by get_public_key on a key set that holds it
FunctionCalls ==
  {[op |-> "extract_token_from_header", authorization_header |-> h,
    key |-> [pair |-> "KP1", jwk |-> EmptyDict], data |-> <<>>] :
      h \in HeaderValues}
    \cup {[op |-> "get_public_key", authorization_header |-> <<>>,
           key |-> d, data |-> <<>>] : d \in Descriptors}
    \cup {[op |-> "_base64url_decode", authorization_header |-> <<>>,
           key |-> [pair |-> "KP1", jwk |-> EmptyDict], data |-> s] :
             s \in Base64Inputs}

NoFunctionCall ==
  [op |-> "none", authorization_header |-> <<>>,
   key |-> [pair |-> "KP1", jwk |-> EmptyDict], data |-> <<>>]

NoLast ==
  [ op |-> "none", kid |-> "k1", token |-> MalformedToken, at |-> 0,
    fetched |-> FALSE, resp_ok |-> FALSE,
    jwks |-> NotCalled, key |-> NotCalled, verify |-> NotCalled,
    result |-> NotCalled ]

Completed(call, o, fetched, resp_ok) ==
  [ op |-> call.op, kid |-> call.kid, token |-> call.token, at |-> now,
    fetched |-> fetched, resp_ok |-> resp_ok,
    jwks |-> o.jwks, key |-> o.key, verify |-> o.verify, result |-> o.result ]

(***************************************************************************)
(* auth.py: the session-token store                                        *)
(***************************************************************************)
\* the requests in flight: two at a time
Workers == {"w1", "w2"}

\* settings.ACCESS_TOKEN_EXPIRE_MINUTES
ACCESS_TOKEN_EXPIRE_MINUTES == 30

\* the ids of the users in users_storage: DEMO_ADMIN, which is never
\* removed
UserIds == {"admin-001"}

NoInfo == [user_id |-> "", created_at |-> 0, expires_at |-> 0]

\* a worker that serves no request
IdleRequest ==
  [pc |-> "idle", kind |-> "none", token |-> 0, token_info |-> NoInfo,
   was_revoked |-> FALSE, checked_at |-> 0, result |-> "none"]

\* the module is imported: tokens_storage = {}
SessionInit ==
  /\ tokens_storage = <<>>
  /\ clock = 0
  /\ minted = 0
  /\ req = [w \in Workers |-> IdleRequest]
  /\ revoked = {}

\* __init__, and no request yet
ServiceInit ==
  /\ _jwks_cache = None
  /\ _public_keys_cache = <<>>
  /\ pc = [t \in Tasks |-> "idle"]
  /\ args = [t \in Tasks |-> NoCall]
  /\ now = 0
  /\ calls = 0
  /\ fetches = 0
  /\ unproductive = 0
  /\ populated = FALSE
  /\ scenario = "fresh"
  /\ last = NoLast

Init ==
  /\ ServiceInit
  /\ fcall = NoFunctionCall
  /\ fret = NotCalled
  /\ SessionInit

\* as it would be if the fetch were awaited (an asynchronous HTTP client)
LoopFreeDuringFetch == \A u \in Tasks : pc[u] # "returned"

\* requests.get is a blocking call made inside the coroutine, and no other
\* await of the call suspends: from its first step to the answer of its
\* caller a running call holds the event loop
LoopFree == \A u \in Tasks : pc[u] \notin {"fetching", "returned"}

\* a request arrives: a coroutine is created and scheduled
Spawn(t) ==
  /\ pc[t] = "idle"
  /\ calls < MaxCalls
  /\ pc' = [pc EXCEPT ![t] = "ready"]
  /\ calls' = calls + 1
  /\ scenario' = IF scenario = "fresh" THEN "fresh" ELSE "other"
  /\ UNCHANGED << _jwks_cache, _public_keys_cache, args, now, fetches,
                  unproductive, populated, last, fcall, fret,
                  sessionVars >>

\* the scenario once the call has started
Started(call) ==
  IF ReachesKeyLookup(call) /\ scenario \in {"fresh", CallKid(call)}
  THEN CallKid(call)
  ELSE "other"

\* the call ends: its effects on the caches, and its record
Finish(t, call, f, o, fetched, resp_ok) ==
  /\ _jwks_cache' = f.cache
  /\ _public_keys_cache' = o.pk
  /\ last' = Completed(call, o, fetched, resp_ok)
  /\ pc' = [pc EXCEPT ![t] = "returned"]
  /\ args' = [args EXCEPT ![t] = NoCall]

\* `if self._jwks_cache: return self._jwks_cache`, when get_jwks is called
CachedJwks(call, cache, pk) ==
  [res |-> IF CallsGetJwks(call, pk) THEN Return(cache[1]) ELSE NotCalled,
   cache |-> cache]

FinishWith(t, call, f, fetched, resp_ok) ==
  Finish(t, call, f, Outcome(call, f.res, _public_keys_cache, now),
         fetched, resp_ok)

\* the event loop runs a scheduled call that needs no fetch: it runs to
\* its end without suspending
RunToEnd(t, call) ==
  /\ pc[t] = "ready"
  /\ LoopFree
  /\ ~ ReachesFetch(call, _jwks_cache, _public_keys_cache)
  /\ FinishWith(t, call, CachedJwks(call, _jwks_cache, _public_keys_cache),
                FALSE, FALSE)
  /\ scenario' = Started(call)
  /\ UNCHANGED << now, calls, fetches, unproductive, populated, fcall, fret,
                  sessionVars >>

\* the event loop runs a scheduled call up to requests.get
RunToFetch(t, call) ==
  /\ pc[t] = "ready"
  /\ LoopFree
  /\ ReachesFetch(call, _jwks_cache, _public_keys_cache)
  /\ pc' = [pc EXCEPT ![t] = "fetching"]
  /\ args' = [args EXCEPT ![t] = call]
  /\ fetches' = fetches + 1
  /\ scenario' = Started(call)
  /\ last' = NoLast
  /\ UNCHANGED << _jwks_cache, _public_keys_cache, now, calls, unproductive,
                  populated, fcall, fret,
                  sessionVars >>

\* requests.get answers or fails, and the call runs to its end
FetchReturn(t, resp) ==
  /\ pc[t] = "fetching"
  /\ FinishWith(t, args[t], FetchJwks(resp, _jwks_cache), TRUE, resp.ok)
  /\ populated' = (populated \/ resp.ok)
  /\ unproductive' = IF CacheTruthy(_jwks_cache') THEN unproductive
                     ELSE unproductive + 1
  /\ UNCHANGED << now, calls, fetches, scenario, fcall, fret,
                  sessionVars >>

\* the caller of the call answers its request and the task ends
Respond(t) ==
  /\ pc[t] = "returned"
  /\ pc' = [pc EXCEPT ![t] = "idle"]
  /\ last' = NoLast
  /\ UNCHANGED << _jwks_cache, _public_keys_cache, args, now, calls, fetches,
                  unproductive, populated, scenario, fcall, fret,
                  sessionVars >>

Tick ==
  /\ now < MaxNow
  /\ now' = now + 1
  /\ UNCHANGED << _jwks_cache, _public_keys_cache, pc, args, calls, fetches,
                  unproductive, populated, scenario, last, fcall, fret,
                  sessionVars >>

(***************************************************************************)
(* The functions of the service on their own: an input is drawn and the   *)
(* function is applied to it                                               *)
(***************************************************************************)
FunctionInit ==
  /\ ServiceInit
  /\ fcall \in FunctionCalls
  /\ fret = NotCalled
  /\ SessionInit

\* what the call returns, and the materialized-key cache it leaves
Apply(call) ==
  IF call.op = "extract_token_from_header"
  THEN [res |-> extract_token_from_header(call.authorization_header),
        pk |-> _public_keys_cache]
  ELSE SearchJwks([keys |-> <<call.key.jwk>>], call.key.jwk.kid,
                  _public_keys_cache)

Returns(r) ==
  /\ fret' = r.res
  /\ _public_keys_cache' = r.pk

ExtractToken ==
  /\ fcall.op = "extract_token_from_header"
  /\ fret = NotCalled
  /\ Returns(Apply(fcall))
  /\ UNCHANGED << _jwks_cache, pc, args, now, calls, fetches, unproductive,
                  populated, scenario, last, fcall,
                  sessionVars >>

\* get_public_key(kid) when get_jwks returns a key set that holds the
\* descriptor
Materialize ==
  /\ fcall.op = "get_public_key"
  /\ fret = NotCalled
  /\ Returns(Apply(fcall))
  /\ UNCHANGED << _jwks_cache, pc, args, now, calls, fetches, unproductive,
                  populated, scenario, last, fcall,
                  sessionVars >>

\* base64.b64decode returns the bytes or raises binascii.Error
DecodeResult(r) ==
  IF r.ok THEN Return(r.bytes) ELSE Raise("binascii.Error", 0, "")

\* _base64url_decode(data)
Decode ==
  /\ fcall.op = "_base64url_decode"
  /\ fret = NotCalled
  /\ fret' = DecodeResult(_base64url_decode(fcall.data))
  /\ UNCHANGED << _jwks_cache, _public_keys_cache, pc, args, now, calls,
                  fetches, unproductive, populated, scenario, last, fcall,
                  sessionVars >>

FunctionNext == ExtractToken \/ Materialize \/ Decode

FunctionSpec == FunctionInit /\ [][FunctionNext]_vars

\* the event loop can run the coroutine of task t
Scheduled(t) == pc[t] = "ready" /\ LoopFree

\* the coroutine of task t is run, for whatever call the request makes
RunsToEnd(t) == Scheduled(t) /\ \E call \in Calls : RunToEnd(t, call)

RunsToFetch(t) == Scheduled(t) /\ \E call \in Calls : RunToFetch(t, call)

Next ==
  \/ \E t \in Tasks : Spawn(t)
  \/ \E t \in Tasks : RunsToEnd(t)
  \/ \E t \in Tasks : RunsToFetch(t)
  \/ \E t \in Tasks, resp \in Responses : FetchReturn(t, resp)
  \/ \E t \in Tasks : Respond(t)
  \/ Tick

Spec == Init /\ [][Next]_vars

\* the service after a get_jwks request whose fetch failed has been
\* answered: one fetch was made, nothing is cached; calls counts the
\* requests that follow
RecoveryInit ==
  /\ _jwks_cache = None
  /\ _public_keys_cache = <<>>
  /\ pc = [t \in Tasks |-> "idle"]
  /\ args = [t \in Tasks |-> NoCall]
  /\ now = 0
  /\ calls = 0
  /\ fetches = 1
  /\ unproductive = 1
  /\ populated = FALSE
  /\ scenario = "other"
  /\ last = NoLast
  /\ fcall = NoFunctionCall
  /\ fret = NotCalled
  /\ SessionInit

RecoverySpec == RecoveryInit /\ [][Next]_vars

\* the step of RunsToEnd(t) or RunsToFetch(t), by its effect on the task
Run(t) ==
  /\ Scheduled(t)
  /\ \/ pc' = [pc EXCEPT ![t] = "returned"]
     \/ pc' = [pc EXCEPT ![t] = "fetching"]

\* the step of FetchReturn(t, resp), by its effect on the task
Answered(t) ==
  /\ pc[t] = "fetching"
  /\ Responses # {}
  /\ pc' = [pc EXCEPT ![t] = "returned"]

\* the event loop runs a coroutine that stays ready (its ready callbacks
\* are run in the order they were scheduled); requests.get(..., timeout=10)
\* answers or raises; the caller of a call that has ended answers its
\* request
Fairness ==
  /\ \A t \in Tasks : WF_pc(Run(t))
  /\ \A t \in Tasks : WF_pc(Answered(t))
  /\ \A t \in Tasks : WF_vars(Respond(t))

FairSpec == Spec /\ Fairness

(***************************************************************************)
(* auth.py: login, get_current_user, logout.  get_current_user is a plain  *)
(* function, which the framework runs in a worker thread: its statements   *)
(* interleave with those of other requests.  login and logout are          *)
(* coroutines without an await: each runs on the event loop thread, one at *)
(* a time, while worker threads go on.                                     *)
(***************************************************************************)
\* tokens_storage[token] = info
WithToken(storage, token, info) ==
  [k \in DOMAIN storage \cup {token} |->
     IF k = token THEN info ELSE storage[k]]

\* del tokens_storage[token]
WithoutToken(storage, token) ==
  [k \in DOMAIN storage \ {token} |-> storage[k]]

\* as it would be without the expiry test
TokenExpiredNever(t, token_info) == FALSE

\* datetime.now() > token_info["expires_at"]
TokenExpired(t, token_info) == t > token_info.expires_at

\* the event loop thread is not inside a handler
HandlerFree == \A w \in Workers : req[w].pc # "logout_del"

\* login with the credentials of a user: create_access_token(user["id"])
\* draws a new uuid4 and stores its record
Login ==
  /\ HandlerFree
  /\ minted < MaxTokens
  /\ minted' = minted + 1
  /\ tokens_storage' =
       WithToken(tokens_storage, minted + 1,
                 [user_id |-> "admin-001", created_at |-> clock,
                  expires_at |-> clock + ACCESS_TOKEN_EXPIRE_MINUTES])
  /\ UNCHANGED << serviceVars, clock, req, revoked >>

\* a request with a bearer token arrives: a token that was issued, or 0,
\* a value that create_access_token never returned
Arrive(w, kind, token) ==
  /\ req[w].pc = "idle"
  /\ req' = [req EXCEPT ![w] = [IdleRequest EXCEPT !.pc = "member",
                                                  !.kind = kind,
                                                  !.token = token]]
  /\ UNCHANGED << serviceVars, tokens_storage, clock, minted, revoked >>

\* a request to an authenticated endpoint or to logout arrives
Arrives(w) ==
  \E kind \in {"profile", "logout"}, token \in 0..minted :
    Arrive(w, kind, token)

\* get_current_user: `if token not in tokens_storage`
TestMember(w) ==
  /\ req[w].pc = "member"
  /\ req' = [req EXCEPT ![w] =
       IF req[w].token \in DOMAIN tokens_storage
       THEN [req[w] EXCEPT !.pc = "read",
                           !.was_revoked = (req[w].token \in revoked)]
       ELSE [req[w] EXCEPT !.pc = "done", !.result = "401_invalid"]]
  /\ UNCHANGED << serviceVars, tokens_storage, clock, minted, revoked >>

\* get_current_user: token_info = tokens_storage[token]; a KeyError when
\* the token has been deleted since the test
ReadInfo(w) ==
  /\ req[w].pc = "read"
  /\ req' = [req EXCEPT ![w] =
       IF req[w].token \in DOMAIN tokens_storage
       THEN [req[w] EXCEPT !.pc = "expiry",
                           !.token_info = tokens_storage[req[w].token]]
       ELSE [req[w] EXCEPT !.pc = "done", !.result = "500"]]
  /\ UNCHANGED << serviceVars, tokens_storage, clock, minted, revoked >>

\* get_current_user: `if datetime.now() > token_info["expires_at"]`
TestExpiry(w) ==
  /\ req[w].pc = "expiry"
  /\ req' = [req EXCEPT ![w] =
       [req[w] EXCEPT !.pc = IF TokenExpired(clock, req[w].token_info)
                             THEN "delete" ELSE "lookup",
                      !.checked_at = clock]]
  /\ UNCHANGED << serviceVars, tokens_storage, clock, minted, revoked >>

\* get_current_user: del tokens_storage[token]; raise 401 "Token has
\* expired"; a KeyError when another request has deleted it
DeleteExpired(w) ==
  /\ req[w].pc = "delete"
  /\ IF req[w].token \in DOMAIN tokens_storage
     THEN /\ tokens_storage' = WithoutToken(tokens_storage, req[w].token)
          /\ revoked' = revoked \cup {req[w].token}
          /\ req' = [req EXCEPT ![w] =
               [req[w] EXCEPT !.pc = "done", !.result = "401_expired"]]
     ELSE /\ req' = [req EXCEPT ![w] =
               [req[w] EXCEPT !.pc = "done", !.result = "500"]]
          /\ UNCHANGED << tokens_storage, revoked >>
  /\ UNCHANGED << serviceVars, clock, minted >>

\* get_current_user: the user of token_info["user_id"] is looked up and
\* returned; the handler of the request follows
ReturnUser(w) ==
  /\ req[w].pc = "lookup"
  /\ req' = [req EXCEPT ![w] =
       IF req[w].token_info.user_id \notin UserIds
       THEN [req[w] EXCEPT !.pc = "done", !.result = "401_no_user"]
       ELSE IF req[w].kind = "logout"
       THEN [req[w] EXCEPT !.pc = "logout", !.result = "user"]
       ELSE [req[w] EXCEPT !.pc = "done", !.result = "user"]]
  /\ UNCHANGED << serviceVars, tokens_storage, clock, minted, revoked >>

\* logout: `if token in tokens_storage`
LogoutTest(w) ==
  /\ req[w].pc = "logout"
  /\ HandlerFree
  /\ req' = [req EXCEPT ![w] =
       IF req[w].token \in DOMAIN tokens_storage
       THEN [req[w] EXCEPT !.pc = "logout_del"]
       ELSE [req[w] EXCEPT !.pc = "done", !.result = "logged_out"]]
  /\ UNCHANGED << serviceVars, tokens_storage, clock, minted, revoked >>

\* logout: del tokens_storage[token]; a KeyError, which the handler turns
\* into a 500, when a worker thread has deleted the token since the test
LogoutDelete(w) ==
  /\ req[w].pc = "logout_del"
  /\ IF req[w].token \in DOMAIN tokens_storage
     THEN /\ tokens_storage' = WithoutToken(tokens_storage, req[w].token)
          /\ revoked' = revoked \cup {req[w].token}
          /\ req' = [req EXCEPT ![w] =
               [req[w] EXCEPT !.pc = "done", !.result = "logged_out"]]
     ELSE /\ req' = [req EXCEPT ![w] =
               [req[w] EXCEPT !.pc = "done", !.result = "500"]]
          /\ UNCHANGED << tokens_storage, revoked >>
  /\ UNCHANGED << serviceVars, clock, minted >>

\* the response is sent
Reply(w) ==
  /\ req[w].pc = "done"
  /\ req' = [req EXCEPT ![w] = IdleRequest]
  /\ UNCHANGED << serviceVars, tokens_storage, clock, minted, revoked >>

\* time passes: the lifetime of a token, or a minute more
Advance(d) ==
  /\ clock + d <= MaxClock
  /\ clock' = clock + d
  /\ UNCHANGED << serviceVars, tokens_storage, minted, req, revoked >>

SessionNext ==
  \/ Login
  \/ \E w \in Workers : Arrives(w)
  \/ \E w \in Workers : TestMember(w)
  \/ \E w \in Workers : ReadInfo(w)
  \/ \E w \in Workers : TestExpiry(w)
  \/ \E w \in Workers : DeleteExpired(w)
  \/ \E w \in Workers : ReturnUser(w)
  \/ \E w \in Workers : LogoutTest(w)
  \/ \E w \in Workers : LogoutDelete(w)
  \/ \E w \in Workers : Reply(w)
  \/ \E d \in {ACCESS_TOKEN_EXPIRE_MINUTES, ACCESS_TOKEN_EXPIRE_MINUTES + 1} :
       Advance(d)

SessionSpec == Init /\ [][SessionNext]_vars

TypeOK ==
  /\ _jwks_cache \in {None} \cup {Some(b) : b \in FetchBodies}
  /\ DOMAIN _public_keys_cache \subseteq Kids
  /\ pc \in [Tasks -> {"idle", "ready", "fetching", "returned"}]
  /\ now \in 0..MaxNow
  /\ calls \in 0..MaxCalls
  /\ fetches \in 0..MaxCalls
  /\ unproductive \in 0..MaxCalls
  /\ scenario \in {"fresh", "other"} \cup Kids

(***************************************************************************)
(* Properties                                                              *)
(***************************************************************************)
IsVerification(l) == l.op = "get_user_from_token"

HasKid(token) == token.wf /\ "kid" \in DOMAIN token.header

\* the signature segment was made by the identity provider's key for the
\* token's kid
ValidlySigned(token) ==
  /\ HasKid(token)
  /\ token.header["kid"] \in DOMAIN SigningKeys
  /\ token.sig = SigningKeys[token.header["kid"]]

Expired(token, t) ==
  token.wf /\ "exp" \in DOMAIN token.payload /\ token.payload["exp"] <= t

InFlight == Cardinality({u \in Tasks : pc[u] = "fetching"})

AllReturned == \A u \in Tasks : pc[u] = "idle"

Rejected(l) == Raised(l.verify) /\ Raised(l.result)

\* signature, issuer and expiry of the token all hold at time t under the
\* key materialized for its kid
FullyVerified(token, t) ==
  /\ HasKid(token)
  /\ token.header["kid"] \in DOMAIN _public_keys_cache
  /\ SignatureVerifies(token, _public_keys_cache[token.header["kid"]])
  /\ GetOpt(token.payload, "iss") = Some(CLERK_JWT_VERIFY_ISSUER)
  /\ "exp" \in DOMAIN token.payload
  /\ token.payload["exp"] > t

\* C1: get_user_from_token returns a user record only for a token whose
\* signature verifies under the key resolved for its kid, whose iss is the
\* configured issuer and whose exp is later than the time of verification;
\* a verification that fails returns no claims and no user record.
C1_PrincipalOnlyAfterFullVerification ==
  IsVerification(last) =>
    /\ ~ Raised(last.result) => FullyVerified(last.token, last.at)
    /\ Raised(last.verify) => Raised(last.result)

C3_NoFetchAfterSuccess ==
  [][populated => (fetches' = fetches /\ _jwks_cache' = _jwks_cache)]_vars

\* C4: a verify_token call whose JWKS fetch fails ends in the
\* service-unavailable (503) error.
C4_FailedFetchIsServiceUnavailable ==
  (IsVerification(last) /\ last.fetched /\ ~ last.resp_ok) =>
    (Raised(last.verify) /\ last.verify.status = HTTP_503_SERVICE_UNAVAILABLE)

KidAbsentFromKeySet(l) ==
  /\ HasKid(l.token)
  /\ l.jwks.kind = "return"
  /\ FirstMatch(JwksKeys(l.jwks.value), l.token.header["kid"]) = 0

\* C6: a token whose kid is absent from the fetched key set ends in the
\* unauthorized (401) error, never in an internal error.
C6_AbsentKidIsUnauthorized ==
  (IsVerification(last) /\ KidAbsentFromKeySet(last)) =>
    (Raised(last.verify) /\ last.verify.status = HTTP_401_UNAUTHORIZED)

\* the step runs the scheduled call of task t, to its end or to its fetch
Runs(t) == pc[t] = "ready" /\ pc'[t] \in {"returned", "fetching"}

\* the call that the step runs: its record when it has returned, the
\* arguments it keeps when it is inside its fetch
CallRun(t) ==
  IF pc'[t] = "returned"
  THEN [op |-> last'.op, kid |-> last'.kid, token |-> last'.token]
  ELSE args'[t]

KidlessCall(call) ==
  /\ call.op = "get_user_from_token"
  /\ call.token.wf
  /\ "kid" \notin DOMAIN call.token.header

\* C7: a verification of a token whose header omits kid ends without a
\* call of get_public_key or get_jwks: no fetch is issued and both caches
\* stay as they were.
C7_NoKidNoKeyLookup ==
  [][\A t \in Tasks :
       (Runs(t) /\ KidlessCall(CallRun(t))) =>
         /\ pc'[t] = "returned"
         /\ Raised(last'.verify)
         /\ last'.key = NotCalled
         /\ last'.jwks = NotCalled
         /\ fetches' = fetches
         /\ _jwks_cache' = _jwks_cache
         /\ _public_keys_cache' = _public_keys_cache]_vars

C7_Witness ==
  /\ KidlessCall(last)
  /\ Raised(last.verify)
  /\ last.jwks = NotCalled
  /\ ~ CacheTruthy(_jwks_cache)
  /\ fetches = 0
  /\ \E u \in Tasks : pc[u] = "ready"

\* the error of the call is one of the kinds a presented token causes:
\* undecodable token, missing kid, kid absent from the key set, or a
\* failure of jwt.decode under the resolved key (algorithm, signature,
\* issuer, expiry)
ClientTokenError(l) ==
  /\ Raised(l.verify)
  /\ \/ ~ l.token.wf
     \/ ~ HasKid(l.token)
     \/ KidAbsentFromKeySet(l)
     \/ l.key.kind = "return"

\* C8: every error kind caused by the presented token surfaces from
\* verify_token as the unauthorized (401) error.
C8_ClientTokenErrorsAreUnauthorized ==
  (IsVerification(last) /\ ClientTokenError(last)) =>
    last.verify.status = HTTP_401_UNAUTHORIZED

\* C9 as stated: a validly signed token whose exp is in the past ends in
\* the unauthorized (401) error, whatever the caches hold.
C9_ExpiredIsUnauthorized ==
  (IsVerification(last) /\ ValidlySigned(last.token)
     /\ Expired(last.token, last.at)) =>
    (Rejected(last) /\ last.verify.status = HTTP_401_UNAUTHORIZED)

\* C9 amended: a validly signed token whose exp is in the past is always
\* rejected, and the error is the unauthorized (401) one whenever
\* get_public_key returned the key for its kid.
C9_ExpiredIsRejected ==
  (IsVerification(last) /\ ValidlySigned(last.token)
     /\ Expired(last.token, last.at)) =>
    /\ Rejected(last)
    /\ last.key.kind = "return" =>
         last.verify.status = HTTP_401_UNAUTHORIZED

C9_Witness ==
  /\ IsVerification(last)
  /\ ValidlySigned(last.token)
  /\ Expired(last.token, last.at)
  /\ last.token.header["alg"] = "RS256"
  /\ GetOpt(last.token.payload, "iss") = Some(CLERK_JWT_VERIFY_ISSUER)
  /\ last.key.kind = "return"
  /\ Rejected(last)
  /\ last.verify.status = HTTP_401_UNAUTHORIZED

\* C10: a token whose iss is missing or differs from the configured issuer
\* is rejected and yields no user record, whether or not its signature is
\* valid.
C10_WrongIssuerIsRejected ==
  (IsVerification(last) /\ last.token.wf
     /\ GetOpt(last.token.payload, "iss") # Some(CLERK_JWT_VERIFY_ISSUER)) =>
    Rejected(last)

C10_Witness ==
  /\ IsVerification(last)
  /\ ValidlySigned(last.token)
  /\ last.token.header["alg"] = "RS256"
  /\ "iss" \in DOMAIN last.token.payload
  /\ last.token.payload["iss"] # CLERK_JWT_VERIFY_ISSUER
  /\ ~ Expired(last.token, last.at)
  /\ last.key.kind = "return"
  /\ Rejected(last)

\* C11: a token whose header alg is not RS256 ("none" and the HMAC
\* algorithms included) is rejected by verify_token and yields no claims
\* and no user record, whatever key is resolved for its kid.
C11_OtherAlgorithmIsRejected ==
  (IsVerification(last) /\ last.token.wf
     /\ last.token.header["alg"] # "RS256") =>
    Rejected(last)

C11_Witness ==
  /\ IsVerification(last)
  /\ ValidlySigned(last.token)
  /\ last.token.header["alg"] = "none"
  /\ GetOpt(last.token.payload, "iss") = Some(CLERK_JWT_VERIFY_ISSUER)
  /\ "exp" \in DOMAIN last.token.payload
  /\ ~ Expired(last.token, last.at)
  /\ last.key.kind = "return"
  /\ Rejected(last)
  /\ last.verify.status = HTTP_401_UNAUTHORIZED

\* the kids whose published descriptor has a missing or a corrupt field
UnconvertibleKids == {"k2", "k3"}

\* the call got the published key set and the descriptor of the token's
\* kid cannot be converted
DescriptorUnconvertible(l) ==
  /\ HasKid(l.token)
  /\ l.token.header["kid"] \in UnconvertibleKids
  /\ l.jwks = Return(PublishedJwks)

\* C12: when the descriptor that matches the token's kid cannot be
\* converted to a public key, get_public_key raises its conversion error,
\* the verification surfaces as an internal error (500), and no entry for
\* that kid is added to _public_keys_cache.
C12_ConversionFailureIsInternalError ==
  (IsVerification(last) /\ DescriptorUnconvertible(last)) =>
    /\ last.key = KeyConversionFailed
    /\ Rejected(last)
    /\ last.verify.status = HTTP_500_INTERNAL_SERVER_ERROR
    /\ last.token.header["kid"] \notin DOMAIN _public_keys_cache

C12_Witness ==
  /\ IsVerification(last)
  /\ DescriptorUnconvertible(last)
  /\ last.token.header["kid"] = "k3"
  /\ last.token.header["alg"] = "RS256"
  /\ last.fetched
  /\ last.key = KeyConversionFailed
  /\ last.verify.status = HTTP_500_INTERNAL_SERVER_ERROR
  /\ "k3" \notin DOMAIN _public_keys_cache

\* the token of scenario A at time t: RS256, signed by the identity
\* provider's key for a kid whose published descriptor is valid, with the
\* configured issuer and an exp in the future
GoodToken(token, t) ==
  /\ ValidlySigned(token)
  /\ token.header["kid"] \notin UnconvertibleKids
  /\ token.header["alg"] = "RS256"
  /\ GetOpt(token.payload, "iss") = Some(CLERK_JWT_VERIFY_ISSUER)
  /\ "exp" \in DOMAIN token.payload
  /\ token.payload["exp"] > t

\* the identity provider was reachable and published its key set, if the
\* call asked for it
ProviderReachable(l) == l.jwks \in {NotCalled, Return(PublishedJwks)}

Accepted(l) ==
  IsVerification(l) /\ l.verify.kind = "return" /\ l.result.kind = "return"

\* C14: for every verified claim set, the user record has sub as id, name
\* as full_name (the empty string when name is absent), sid as session_id,
\* iat as issued_at, exp as expires_at, and is_active true.
C14_UserRecordMapping ==
  (IsVerification(last) /\ last.verify.kind = "return") =>
    /\ last.result.kind = "return"
    /\ last.verify.value = last.token.payload
    /\ last.result.value.id = Some(last.verify.value["sub"])
    /\ last.result.value.full_name =
         (IF "name" \in DOMAIN last.verify.value
          THEN last.verify.value["name"] ELSE "")
    /\ last.result.value.session_id =
         (IF "sid" \in DOMAIN last.verify.value
          THEN Some(last.verify.value["sid"]) ELSE None)
    /\ last.result.value.issued_at =
         (IF "iat" \in DOMAIN last.verify.value
          THEN Some(last.verify.value["iat"]) ELSE None)
    /\ last.result.value.expires_at =
         (IF "exp" \in DOMAIN last.verify.value
          THEN Some(last.verify.value["exp"]) ELSE None)
    /\ last.result.value.is_active = TRUE

C14_Witness ==
  /\ Accepted(last)
  /\ {"name", "sid", "iat", "exp"} \subseteq DOMAIN last.verify.value
  /\ last.result.value.full_name = "U Ser"
  /\ last.result.value.session_id = Some("sess-1")
  /\ last.result.value.issued_at = Some(0)
  /\ last.result.value.expires_at = Some(1)
  /\ last.result.value.is_active

\* C15: for every verified claim set without an email claim, the user
\* record has the empty string as email, never null.
C15_AbsentEmailIsEmptyString ==
  (Accepted(last) /\ "email" \notin DOMAIN last.verify.value) =>
    last.result.value.email = Some("")

\* extract_token_from_header has been applied to the drawn header value
Extracted == fcall.op = "extract_token_from_header" /\ fret # NotCalled

Bearer == <<"b","e","a","r","e","r">>

\* a non-empty string without whitespace
IsWord(str) == str # <<>> /\ \A i \in 1..Len(str) : str[i] \notin Whitespace

\* C16 as stated: a header value is accepted only when it is exactly two
\* space-separated parts of which the second is "bearer" in any case;
\* every other value ends in the unauthorized (401) error.
C16_SecondPartIsBearer ==
  Extracted =>
    IF /\ Len(split(fcall.authorization_header)) = 2
       /\ lower(split(fcall.authorization_header)[2]) = Bearer
    THEN fret.kind = "return"
    ELSE Raised(fret) /\ fret.status = HTTP_401_UNAUTHORIZED

\* C16 amended: a header value is accepted exactly when it splits on
\* whitespace into two parts of which the first is "bearer" in any case;
\* the credential returned is the second part, and every other value
\* (empty, one part, three parts or more, another scheme) ends in the
\* unauthorized (401) error with no credential.
C16_FirstPartIsBearer ==
  Extracted =>
    IF /\ Len(split(fcall.authorization_header)) = 2
       /\ lower(split(fcall.authorization_header)[1]) = Bearer
    THEN /\ fret = Return(split(fcall.authorization_header)[2])
         /\ IsWord(fret.value)
    ELSE Raised(fret) /\ fret.status = HTTP_401_UNAUTHORIZED

C16_Witness ==
  /\ Extracted
  /\ fcall.authorization_header =
       <<"B","E","A","R","E","R">> \o <<" ", "\t">> \o <<"t","o","k">>
  /\ fret = Return(<<"t","o","k">>)

\* a message signed with the private key of the pair
SignedBy(pair) ==
  [wf |-> TRUE, header |-> MkHeader(None, "RS256"),
   payload |-> MkPayload(None, None, EmptyDict), sig |-> pair]

\* get_public_key has been applied to the drawn descriptor
Materialized == fcall.op = "get_public_key" /\ fret # NotCalled

\* C18: for every valid descriptor (kid, exponent, modulus), get_public_key
\* returns and caches under kid a key under which a signature made with
\* the matching private key verifies.
C18_MaterializedKeyVerifies ==
  (Materialized /\ fcall.key \in ValidDescriptors) =>
    /\ fret.kind = "return"
    /\ fcall.key.jwk.kid \in DOMAIN _public_keys_cache
    /\ _public_keys_cache[fcall.key.jwk.kid] = fret.value
    /\ SignatureVerifies(SignedBy(fcall.key.pair), fret.value)

C18_Witness ==
  /\ Materialized
  /\ fcall.key.pair = "KP3"
  /\ fcall.key.jwk.n = <<"-","-","-","_">>
  /\ fret = Return(Pem(65537, 16510911))
  /\ _public_keys_cache = [k \in {"k3"} |-> Pem(65537, 16510911)]

\* C17: while one call is inside the JWKS fetch, a concurrent call that is
\* scheduled can take its steps: running it is enabled.
C17_NoVerificationBlocksAnother ==
  \A t \in Tasks, u \in Tasks :
    (pc[t] = "fetching" /\ pc[u] = "ready") =>
      ENABLED (\E call \in Calls : RunToEnd(u, call) \/ RunToFetch(u, call))

\* a verification of a token whose header has a kid and an alg other than
\* RS256
OtherAlgorithmCall(call) ==
  /\ call.op = "get_user_from_token"
  /\ HasKid(call.token)
  /\ call.token.header["alg"] # "RS256"

\* C19: a token whose header has a kid but an alg other than RS256 is
\* rejected before any key resolution: get_public_key is not called, no
\* fetch is issued and both caches stay as they were.
C19_AlgorithmCheckedBeforeKeyResolution ==
  [][\A t \in Tasks :
       (Runs(t) /\ OtherAlgorithmCall(CallRun(t))) =>
         /\ pc'[t] = "returned"
         /\ Raised(last'.verify)
         /\ last'.key = NotCalled
         /\ fetches' = fetches
         /\ _jwks_cache' = _jwks_cache
         /\ _public_keys_cache' = _public_keys_cache]_vars

\* a call that reaches get_public_key with a kid that is in
\* _public_keys_cache
CacheHit(call) ==
  /\ ReachesKeyLookup(call)
  /\ CallKid(call) \in DOMAIN _public_keys_cache

\* C20: when kid is in _public_keys_cache, get_public_key returns the
\* cached key without calling get_jwks: no fetch is issued, whatever
\* _jwks_cache holds, and both caches stay as they were.
C20_CacheHitReadsOnlyTheKeyCache ==
  [][\A t \in Tasks :
       (Runs(t) /\ CacheHit(CallRun(t))) =>
         /\ pc'[t] = "returned"
         /\ last'.key = Return(_public_keys_cache[CallKid(CallRun(t))])
         /\ last'.jwks = NotCalled
         /\ ~ last'.fetched
         /\ fetches' = fetches
         /\ _jwks_cache' = _jwks_cache
         /\ _public_keys_cache' = _public_keys_cache
         /\ \A c \in {None} \cup {Some(b) : b \in FetchBodies} :
              ~ ReachesFetch(CallRun(t), c, _public_keys_cache)]_vars

C20_Witness ==
  /\ last.op = "get_public_key"
  /\ last.kid = "k1"
  /\ last.jwks = NotCalled
  /\ ~ last.fetched
  /\ last.result = Return(Pem(17, 3233))
  /\ _public_keys_cache = [k \in {"k1"} |-> Pem(17, 3233)]
  /\ fetches = 1

\* the call reached get_public_key
LookedUpKey(l) == l.op \in {"get_public_key", "get_user_from_token"} /\ l.key # NotCalled

\* the kid the call looked up
KidOf(l) == IF l.op = "get_public_key" THEN l.kid ELSE l.token.header["kid"]

\* get_public_key without the materialized-key cache: the descriptor of
\* kid is converted anew from the key set that get_jwks gives, which is
\* the cached key set when the call did not have to ask for it
Uncached(l) ==
  IF l.jwks = NotCalled
  THEN SearchJwks(_jwks_cache[1], KidOf(l), <<>>).res
  ELSE IF Raised(l.jwks) THEN l.jwks
  ELSE SearchJwks(l.jwks.value, KidOf(l), <<>>).res

\* C21: the result of every get_public_key call, a key or an error, is
\* the result of a get_public_key without the materialized-key cache
\* that converts the descriptor of kid from the current key set.
C21_CachingIsTransparent ==
  LookedUpKey(last) =>
    /\ last.jwks = NotCalled => CacheTruthy(_jwks_cache)
    /\ last.key = Uncached(last)

C21_Witness ==
  /\ IsVerification(last)
  /\ LookedUpKey(last)
  /\ last.jwks = NotCalled
  /\ last.key = Return(Pem(17, 3233))
  /\ last.key = Uncached(last)
  /\ fetches = 1

\* C22: for a descriptor whose declared algorithm is not RS256 or whose
\* key type is not RSA, get_public_key ends in the key conversion error
\* and neither returns nor caches a key for its kid, even when n and e
\* can be decoded.
C22_UnsupportedDescriptorIsConversionError ==
  (Materialized /\ (fcall.key.jwk.alg # "RS256" \/ fcall.key.jwk.kty # "RSA")) =>
    /\ fret = KeyConversionFailed
    /\ fcall.key.jwk.kid \notin DOMAIN _public_keys_cache

\* the aud claim of the token compared with: absent, or an audience that
\* no token of the model carries
Audiences == {None, Some("app")}

\* the payload with its aud claim set to a, or without it
PayloadWithAud(payload, a) ==
  [k \in (DOMAIN payload \ {"aud"}) \cup (IF a = None THEN {} ELSE {"aud"}) |->
     IF k = "aud" THEN a[1] ELSE payload[k]]

\* the token that differs only in its aud claim, signed with the same key
WithAud(token, a) ==
  IF ~ token.wf THEN token
  ELSE [token EXCEPT !.payload = PayloadWithAud(token.payload, a)]

\* the tokens that differ from the token at most in their aud claim
AudVariants(token) == {WithAud(token, a) : a \in Audiences}

\* both accepted, or both rejected with the same error
SameOutcome(r1, r2) ==
  /\ r1.kind = r2.kind
  /\ Raised(r1) => r1 = r2

\* task t ends a verify_token call in this step
EndsVerification(t) ==
  /\ pc[t] # "returned"
  /\ pc'[t] = "returned"
  /\ last'.op = "get_user_from_token"

\* C23: the aud claim has no influence on verification: whenever
\* verify_token ends, the same call from the same caches at the same
\* time with a token that differs only in the presence or the value of
\* aud has the same outcome, accepted or rejected with the same error.
C23_AudienceHasNoInfluence ==
  [][\A t \in Tasks : EndsVerification(t) =>
       \A variant \in AudVariants(last'.token) :
         SameOutcome(VerifyToken(variant, last'.jwks,
                                 _public_keys_cache, now).res,
                     last'.verify)]_vars

C23_Witness ==
  /\ Accepted(last)
  /\ Get(last.token.payload, "aud", "") = "other-app"
  /\ last.verify.value["aud"] = "other-app"

\* C24: a token is accepted only if its payload carries an exp claim that
\* is later than the verification time: a validly signed token with the
\* configured issuer and no exp claim is rejected by verify_token and
\* gives no user record.
C24_ExpiryClaimIsRequired ==
  (/\ IsVerification(last)
   /\ ValidlySigned(last.token)
   /\ GetOpt(last.token.payload, "iss") = Some(CLERK_JWT_VERIFY_ISSUER)
   /\ "exp" \notin DOMAIN last.token.payload) =>
     Rejected(last)

\* the call of task t has started and has not ended
Pending(t) == pc[t] \in {"ready", "fetching"}

\* the call of task t has ended, with a value or with an error
Terminated(t) ==
  /\ pc[t] = "returned"
  /\ last.result.kind \in {"return", "raise"}

\* C25: when the event loop is fair and the JWKS GET always answers or
\* times out, every call that has started ends with a value or with an
\* error, whatever the number of concurrent callers and whether the fetch
\* succeeds or fails: no call stays pending for ever (again and again no
\* call at all is pending), and a call stops being pending only by ending
\* with a value or with an error.
C25_EveryCallTerminates ==
  /\ []<>(\A t \in Tasks : ~ Pending(t))
  /\ [][\A t \in Tasks : (Pending(t) /\ ~ Pending(t)') => Terminated(t)']_vars

C25_Witness ==
  \E t, u \in Tasks :
    /\ Terminated(t)
    /\ IsVerification(last)
    /\ last.fetched
    /\ ~ last.resp_ok
    /\ pc[u] = "ready"

\* the fetch of task t ends in this step
FetchEnds(t) == pc[t] = "fetching" /\ pc'[t] = "returned"

\* task t runs a call that gets to get_public_key for a kid that is not
\* in _public_keys_cache
RunsUncachedLookup(t) ==
  /\ Runs(t)
  /\ ReachesKeyLookup(CallRun(t))
  /\ CallKid(CallRun(t)) \notin DOMAIN _public_keys_cache

\* the failing get_jwks call makes no second attempt and leaves nothing
\* behind
NoRetry(t) ==
  (FetchEnds(t) /\ ~ last'.resp_ok) =>
    /\ fetches' = fetches
    /\ _jwks_cache' = _jwks_cache
    /\ last'.jwks = ServiceUnavailable

\* the call whose fetch gets the published key set accepts a good token
Recovers(t) ==
  (/\ FetchEnds(t)
   /\ last'.jwks = Return(PublishedJwks)
   /\ IsVerification(last')
   /\ GoodToken(last'.token, now)) => Accepted(last')

\* C26 as stated: a failed fetch is attempted once within the failing
\* call, and after a failure every later get_public_key call for an
\* uncached kid performs a new fetch attempt, so that a good token is
\* accepted once the identity provider answers.
C26_EveryLaterCallFetches ==
  [][\A t \in Tasks :
       /\ NoRetry(t)
       /\ (unproductive >= 1 /\ RunsUncachedLookup(t)) =>
            (pc'[t] = "fetching" /\ fetches' = fetches + 1)
       /\ Recovers(t)]_vars

\* C26 amended: a failed fetch is attempted once within the failing call
\* and leaves nothing behind; after a failure every later get_public_key
\* call for an uncached kid performs a new fetch attempt as long as no
\* key set is cached, so that a good token is accepted by the first
\* call whose fetch is answered with the key set; once a key set is
\* cached, a call for an uncached kid performs no fetch.
C26_LaterCallFetchesWhileUnpopulated ==
  [][\A t \in Tasks :
       /\ NoRetry(t)
       /\ (unproductive >= 1 /\ RunsUncachedLookup(t)) =>
            IF CacheTruthy(_jwks_cache)
            THEN pc'[t] = "returned" /\ fetches' = fetches
            ELSE pc'[t] = "fetching" /\ fetches' = fetches + 1
       /\ Recovers(t)]_vars

C26_Witness ==
  /\ unproductive = 2
  /\ fetches = 3
  /\ Accepted(last)
  /\ last.fetched
  /\ last.jwks = Return(PublishedJwks)

\* the descriptor with this kid in the key set, materialized
MaterializedFrom(jwks, kid) ==
  IF FirstMatch(JwksKeys(jwks), kid) = 0 THEN KeyNotFound
  ELSE ConvertJwk(JwksKeys(jwks)[FirstMatch(JwksKeys(jwks), kid)])

\* every materialized key is the materialization of the descriptor with
\* its kid in the cached key set
CacheConsistent ==
  \A kid \in DOMAIN _public_keys_cache :
    /\ _jwks_cache # None
    /\ MaterializedFrom(_jwks_cache[1], kid) = Return(_public_keys_cache[kid])

\* no entry of _public_keys_cache is overwritten or removed
EntriesKept ==
  \A kid \in DOMAIN _public_keys_cache :
    /\ kid \in DOMAIN _public_keys_cache'
    /\ _public_keys_cache'[kid] = _public_keys_cache[kid]

\* an entry is added only by the call that ends in this step with the
\* key it materialized for its kid
AddedByMaterialization ==
  \A kid \in DOMAIN _public_keys_cache' \ DOMAIN _public_keys_cache :
    /\ LookedUpKey(last')
    /\ KidOf(last') = kid
    /\ last'.key = Return(_public_keys_cache'[kid])
    /\ \E t \in Tasks : pc[t] # "returned" /\ pc'[t] = "returned"

\* _jwks_cache changes only to the whole body of a fetch that succeeded
ReplacedAsAWhole ==
  _jwks_cache' # _jwks_cache =>
    /\ \E t \in Tasks : FetchEnds(t)
    /\ last'.resp_ok
    /\ last'.jwks.kind = "return"
    /\ _jwks_cache' = Some(last'.jwks.value)

\* C27: in every reachable state each kid in _public_keys_cache has a
\* descriptor with that kid in the cached key set and its value is the
\* materialization of that descriptor; entries are added only by a
\* successful materialization and are never overwritten or removed; the
\* key set is only replaced as a whole.
C27_CachesAreConsistent ==
  /\ []CacheConsistent
  /\ [][EntriesKept /\ AddedByMaterialization /\ ReplacedAsAWhole]_vars

C27_Witness ==
  /\ CacheConsistent
  /\ DOMAIN _public_keys_cache = {"k1"}
  /\ _jwks_cache = Some(PublishedJwks)
  /\ last.op = "get_public_key"
  /\ last.kid = "k3"
  /\ last.key = KeyConversionFailed

\* the positions of str where a part begins, and where a part ends
PartStarts(str) ==
  {i \in 1..Len(str) :
     str[i] \notin Whitespace /\ (i = 1 \/ str[i - 1] \in Whitespace)}

PartEnds(str) ==
  {i \in 1..Len(str) :
     str[i] \notin Whitespace /\ (i = Len(str) \/ str[i + 1] \in Whitespace)}

Least(S) == CHOOSE i \in S : \A j \in S : i <= j

Greatest(S) == CHOOSE i \in S : \A j \in S : j <= i

\* the first and the last part of a string that has parts
FirstPart(str) == SubSeq(str, Least(PartStarts(str)), Least(PartEnds(str)))

LastPart(str) ==
  SubSeq(str, Greatest(PartStarts(str)), Greatest(PartEnds(str)))

\* the header value is a scheme "bearer", in any case, and one credential
IsBearerHeader(str) ==
  /\ str # <<>>
  /\ Cardinality(PartStarts(str)) = 2
  /\ lower(FirstPart(str)) = Bearer

\* C28: extract_token_from_header returns a credential exactly when the
\* header value is non-empty and consists of exactly two parts separated
\* by whitespace of which the first is "bearer" in any case; it then
\* returns the second part, which is non-empty and without whitespace.
\* In every other case (missing or empty value, one part, three parts or
\* more, another scheme) it raises an unauthorized (401) HTTPException
\* and returns nothing.
C28_CredentialExactlyForBearerHeaders ==
  Extracted =>
    /\ fret.kind = "return" <=> IsBearerHeader(fcall.authorization_header)
    /\ fret.kind = "return" =>
         /\ fret.value = LastPart(fcall.authorization_header)
         /\ IsWord(fret.value)
    /\ fret.kind # "return" =>
         /\ Raised(fret)
         /\ fret.exc = "HTTPException"
         /\ fret.status = HTTP_401_UNAUTHORIZED

C28_Witness ==
  /\ Extracted
  /\ fcall.authorization_header =
       <<" ">> \o Bearer \o <<"\t">> \o <<"t","o","k">>
  /\ fret = Return(<<"t","o","k">>)

\* _base64url_decode has been applied to the drawn text
Decoded == fcall.op = "_base64url_decode" /\ fret # NotCalled

\* the text with '=' added up to the next multiple of four characters
PaddedToFour(s) == s \o [i \in 1..((4 - (Len(s) % 4)) % 4) |-> "="]

\* the text in the standard alphabet
InStandardAlphabet(s) ==
  [i \in 1..Len(s) |->
     IF s[i] = "-" THEN "+" ELSE IF s[i] = "_" THEN "/" ELSE s[i]]

\* C30: _base64url_decode pads a text whose length is not a multiple of
\* four with '=' up to the next multiple of four and leaves a text whose
\* length is one unpadded, replaces every '-' by '+' and every '_' by '/',
\* and applies the standard base64 decoding to the result; for every
\* byte string b the unpadded base64url encoding of b is decoded to b.
C30_DecodeInvertsUnpaddedEncoding ==
  Decoded =>
    /\ fret = DecodeResult(b64decode(InStandardAlphabet(PaddedToFour(fcall.data))))
    /\ Len(fcall.data) % 4 = 0 => PaddedToFour(fcall.data) = fcall.data
    /\ \A b \in ByteStrings :
         fcall.data = Base64UrlEncode(b) => fret = Return(b)

C30_Witness ==
  /\ Decoded
  /\ fcall.data = <<"-","_","8">>
  /\ fcall.data = Base64UrlEncode(<<251, 255>>)
  /\ fret = Return(<<251, 255>>)

\* get_current_user of worker w returns the user in this step
Accepts(w) == req[w].pc = "lookup" /\ req'[w].result = "user"

\* worker w executes a statement in this step
Steps(w) == req'[w] # req[w]

\* a token that was deleted by logout or on its expiry is not in
\* tokens_storage, and every token in it was issued
DeletedStaysDeleted ==
  /\ \A token \in revoked : token \notin DOMAIN tokens_storage
  /\ DOMAIN tokens_storage \subseteq 1..minted
  /\ \A token \in DOMAIN tokens_storage :
       tokens_storage[token].expires_at =
         tokens_storage[token].created_at + ACCESS_TOKEN_EXPIRE_MINUTES

\* the token that is accepted was issued by create_access_token, had not
\* been logged out or rejected as expired when the call found it in
\* tokens_storage, and the time of the expiry test was not after its
\* expires_at
AcceptedOnlyIfValid(w) ==
  Accepts(w) =>
    /\ req[w].token \in 1..minted
    /\ ~ req[w].was_revoked
    /\ req[w].token_info.user_id \in UserIds
    /\ req[w].token_info.expires_at =
         req[w].token_info.created_at + ACCESS_TOKEN_EXPIRE_MINUTES
    /\ req[w].checked_at <= req[w].token_info.expires_at

\* a call that comes after the logout or the expiry rejection of its
\* token ends in the 401 of an unknown token
RejectedForEver(w) ==
  (req[w].pc = "member" /\ req[w].token \in revoked /\ Steps(w)) =>
    (req'[w].pc = "done" /\ req'[w].result = "401_invalid")

\* the first call that tests the token after its expiry deletes it
DeletedOnFirstUse(w) ==
  /\ (req[w].pc = "expiry" /\ clock > req[w].token_info.expires_at
        /\ Steps(w)) => req'[w].pc = "delete"
  /\ (req[w].pc = "delete" /\ Steps(w)) =>
       /\ req[w].token \notin DOMAIN tokens_storage'
       /\ req'[w].result \in {"401_expired", "500"}
       /\ req'[w].result = "401_expired" => req[w].token \in revoked'

\* C29: get_current_user accepts a bearer token only if
\* create_access_token issued it, it has not been passed to logout since,
\* and the time is not after its expires_at; an expired token is deleted
\* from tokens_storage on its first use after expiry; a token that was
\* logged out or rejected as expired is never accepted again.
C29_SessionTokenLifecycle ==
  /\ []DeletedStaysDeleted
  /\ [][\A w \in Workers :
         /\ AcceptedOnlyIfValid(w)
         /\ RejectedForEver(w)
         /\ DeletedOnFirstUse(w)]_vars

C29_Witness ==
  /\ revoked = {1}
  /\ req["w1"].pc = "done"
  /\ req["w1"].token = 1
  /\ req["w1"].result = "401_invalid"
  /\ req["w2"].pc = "done"
  /\ req["w2"].token = 2
  /\ req["w2"].result = "user"
  /\ req["w2"].checked_at = req["w2"].token_info.expires_at

====
